---- MODULE Spec2Model ----
(***************************************************************************)
(* Model of scripts/parse_log.py (remrama/worn): the parser that turns a   *)
(* tab-delimited Worn log file into one fixed-column record per line.      *)
(*                                                                         *)
(* Representation of Python values.  A str is a sequence of atoms; an atom *)
(* is a TLA+ string standing for one character ("\t", "=", "\"", ...) or   *)
(* for an indivisible run of characters (a word such as "earliest", a      *)
(* wall-clock text such as "10:00", an offset such as "-05:00").  None is  *)
(* the one-atom sequence <<"None">> and an exception is <<"ValueError">>;  *)
(* a datetime is <<"datetime", wall, offset>>.  No text of the model       *)
(* contains the atoms "None", "ValueError" or "datetime", so the three     *)
(* kinds of value never collide.                                           *)
(***************************************************************************)
EXTENDS Naturals, Sequences, FiniteSets, TLC

VARIABLES
    lines,   \* the lines the file iterator yields, in order (for line in f)
    idx,     \* 1-based index of the next line to read
    rows,    \* the local list `rows` of parse_log
    pc,      \* "reading", "done" (returned), "failed" (exception escaped)
    df,      \* the value parse_log returned: NotReturned until it returns
    error,   \* the exception that escaped, or "none"
    scan,    \* locals of a call of _parse_dual_time_windows followed step by
             \* step: result, seen_start_window, bare_timestamps (and err)
    todo     \* the fields that call has still to iterate over

vars == <<lines, idx, rows, pc, df, error, scan, todo>>

----------------------------------------------------------------------------
(* Atoms and Python values *)

TAB == "\t"
LF == "\n"
CR == "\r"
EQ == "="
QUOTE == "\""

None == <<"None">>
ValueError == <<"ValueError">>
NotReturned == <<"NotReturned">>

\* Wall-clock texts datetime.fromisoformat accepts (each atom stands for a
\* full "YYYY-MM-DDTHH:MM:SS.fff" text) and the numeric offsets it accepts.
WallClocks == {"10:00", "10:05", "11:55", "12:00"}
Offsets == {"+00:00", "-05:00"}

\* datetime.fromisoformat: an aware datetime for wall-clock text followed by
\* a numeric offset, a naive one for wall-clock text alone, else ValueError.
FromIsoFormat(s) ==
    IF Len(s) = 2 /\ s[1] \in WallClocks /\ s[2] \in Offsets
    THEN <<"datetime", s[1], s[2]>>
    ELSE IF Len(s) = 1 /\ s[1] \in WallClocks
         THEN <<"datetime", s[1], "naive">>
         ELSE ValueError

\* _parse_timestamp: a trailing "Z" is rewritten to "+00:00" first.
ParseTimestamp(ts_str) ==
    IF Len(ts_str) > 0 /\ ts_str[Len(ts_str)] = "Z"
    THEN FromIsoFormat(SubSeq(ts_str, 1, Len(ts_str) - 1) \o <<"+00:00">>)
    ELSE FromIsoFormat(ts_str)

\* str.find for a single character: the first 1-based index of a in s, or 0.
IndexOf(s, a) ==
    IF \E i \in 1..Len(s) : s[i] = a
    THEN CHOOSE i \in 1..Len(s) : s[i] = a /\ \A j \in 1..(i - 1) : s[j] # a
    ELSE 0

\* s[i:] for a 1-based i
From(s, i) == SubSeq(s, i, Len(s))

\* str.startswith
StartsWith(s, p) == Len(s) >= Len(p) /\ SubSeq(s, 1, Len(p)) = p

\* field.split("=", 1)[1]
AfterEq(field) == From(field, IndexOf(field, EQ) + 1)

\* _parse_quoted_string: re.search(r'"([^"]*)"', s), group 1, else s itself.
ParseQuotedString(s) ==
    LET i == IndexOf(s, QUOTE)
        rest == From(s, i + 1)
        j == IndexOf(rest, QUOTE)
    IN  IF i = 0 \/ j = 0 THEN s ELSE SubSeq(rest, 1, j - 1)

\* _parse_key_value: <<key, value>>
ParseKeyValue(field) ==
    IF IndexOf(field, EQ) = 0
    THEN <<field, field>>
    ELSE LET key == SubSeq(field, 1, IndexOf(field, EQ) - 1)
             value == AfterEq(field)
         IN  IF StartsWith(value, <<QUOTE>>) /\ value[Len(value)] = QUOTE
             THEN <<key, SubSeq(value, 2, Len(value) - 1)>>
             ELSE <<key, value>>

\* line.rstrip("\n\r")
RECURSIVE Rstrip(_)
Rstrip(line) ==
    IF Len(line) > 0 /\ line[Len(line)] \in {LF, CR}
    THEN Rstrip(SubSeq(line, 1, Len(line) - 1))
    ELSE line

\* line.split("\t")
RECURSIVE SplitTab(_)
SplitTab(line) ==
    LET i == IndexOf(line, TAB)
    IN  IF i = 0
        THEN <<line>>
        ELSE <<SubSeq(line, 1, i - 1)>> \o SplitTab(From(line, i + 1))

----------------------------------------------------------------------------
(* Time-window resolution.  A scan state carries `err`: "none" while no    *)
(* exception has been raised, else the exception that leaves the function. *)

\* one iteration of the loop of _parse_single_time_window
SingleStep(st, field) ==
    IF StartsWith(field, <<"earliest", EQ>>)
    THEN LET ts == ParseTimestamp(AfterEq(field))
         IN  IF ts = ValueError
             THEN [st EXCEPT !.err = "ValueError"]
             ELSE [st EXCEPT !.result.start_earliest = ts]
    ELSE IF StartsWith(field, <<"latest", EQ>>)
    THEN LET ts == ParseTimestamp(AfterEq(field))
         IN  IF ts = ValueError
             THEN [st EXCEPT !.err = "ValueError"]
             ELSE [st EXCEPT !.result.start_latest = ts]
    ELSE IF field # <<>> /\ IndexOf(field, EQ) = 0
    THEN LET ts == ParseTimestamp(field)
         IN  IF ts = ValueError
             THEN st   \* except ValueError: pass
             ELSE [st EXCEPT !.result.start_time = ts]
    ELSE st

RECURSIVE SingleScan(_, _)
SingleScan(st, fields) ==
    IF fields = <<>> \/ st.err # "none"
    THEN st
    ELSE SingleScan(SingleStep(st, Head(fields)), Tail(fields))

\* the state of _parse_dual_time_windows before its loop
DualInit ==
    [err |-> "none",
     result |-> [start_time |-> None, start_earliest |-> None,
                 start_latest |-> None, stop_time |-> None,
                 stop_earliest |-> None, stop_latest |-> None],
     seen_start_window |-> FALSE,
     bare_timestamps |-> <<>>]

\* a decoded earliest= bound: the start window's unless that is taken
StoreEarliest(st, ts) ==
    IF ~st.seen_start_window /\ st.result.start_earliest = None
    THEN [st EXCEPT !.result.start_earliest = ts]
    ELSE [st EXCEPT !.result.stop_earliest = ts]

\* mutant of StoreLatest: the else branch writes the start bound again
StoreLatestStartAgain(st, ts) ==
    IF ~st.seen_start_window /\ st.result.start_latest = None
    THEN [st EXCEPT !.result.start_latest = ts, !.seen_start_window = TRUE]
    ELSE [st EXCEPT !.result.start_latest = ts]

\* mutant of StoreLatest: the flag is not set when the start window closes
StoreLatestNoFlag(st, ts) ==
    IF ~st.seen_start_window /\ st.result.start_latest = None
    THEN [st EXCEPT !.result.start_latest = ts]
    ELSE [st EXCEPT !.result.stop_latest = ts]

\* a decoded latest= bound: closes the start window, else the stop window's
StoreLatest(st, ts) ==
    IF ~st.seen_start_window /\ st.result.start_latest = None
    THEN [st EXCEPT !.result.start_latest = ts, !.seen_start_window = TRUE]
    ELSE [st EXCEPT !.result.stop_latest = ts]

\* one iteration of the loop of _parse_dual_time_windows
DualStep(st, field) ==
    IF StartsWith(field, <<"earliest", EQ>>)
    THEN LET ts == ParseTimestamp(AfterEq(field))
         IN  IF ts = ValueError
             THEN [st EXCEPT !.err = "ValueError"]
             ELSE StoreEarliest(st, ts)
    ELSE IF StartsWith(field, <<"latest", EQ>>)
    THEN LET ts == ParseTimestamp(AfterEq(field))
         IN  IF ts = ValueError
             THEN [st EXCEPT !.err = "ValueError"]
             ELSE StoreLatest(st, ts)
    ELSE IF field # <<>> /\ IndexOf(field, EQ) = 0
    THEN LET ts == ParseTimestamp(field)
         IN  IF ts = ValueError
             THEN st   \* except ValueError: pass
             ELSE [st EXCEPT !.bare_timestamps = Append(@, ts)]
    ELSE st

RECURSIVE DualScan(_, _)
DualScan(st, fields) ==
    IF fields = <<>> \/ st.err # "none"
    THEN st
    ELSE DualScan(DualStep(st, Head(fields)), Tail(fields))

\* mutant of AssignBare: stop_time is the last bare timestamp, not the second
AssignBareLast(st) ==
    LET n == Len(st.bare_timestamps)
        r1 == IF n >= 1
              THEN [st.result EXCEPT !.start_time = st.bare_timestamps[1]]
              ELSE st.result
        r2 == IF n >= 2
              THEN [r1 EXCEPT !.stop_time = st.bare_timestamps[n]]
              ELSE r1
    IN  r2

\* the assignments after the loop: first bare timestamp is start, second stop
AssignBare(st) ==
    LET r1 == IF Len(st.bare_timestamps) >= 1
              THEN [st.result EXCEPT !.start_time = st.bare_timestamps[1]]
              ELSE st.result
        r2 == IF Len(st.bare_timestamps) >= 2
              THEN [r1 EXCEPT !.stop_time = st.bare_timestamps[2]]
              ELSE r1
    IN  r2

\* _parse_dual_time_windows: [err, result]
ParseDualTimeWindows(fields) ==
    LET st == DualScan(DualInit, fields)
    IN  [err |-> st.err,
         result |-> IF st.err = "none" THEN AssignBare(st) ELSE st.result]

\* mutant of ParseSingleTimeWindow: the tail goes through the dual-window
\* algorithm (first earliest=/latest= kept, later ones moved to the stop window)
ParseSingleAsDual(fields) == ParseDualTimeWindows(fields)

\* _parse_single_time_window: [err, result]
ParseSingleTimeWindow(fields) ==
    SingleScan([err |-> "none",
                result |-> [start_time |-> None, start_earliest |-> None,
                            start_latest |-> None]],
               fields)

----------------------------------------------------------------------------
(* Dicts: functions from a finite set of keys.  dict.update overlays.      *)

EmptyDict == [k \in {} |-> None]

DictSet(d, key, v) ==
    [k \in DOMAIN d \cup {key} |-> IF k = key THEN v ELSE d[k]]

Update(row, d) ==
    [k \in DOMAIN row \cup DOMAIN d |-> IF k \in DOMAIN d THEN d[k] ELSE row[k]]

\* mutant of SerialOf: the value is stored as it is
SerialOfRaw(value) == value

\* None if value == "none" else value
SerialOf(value) == IF value = <<"none">> THEN None ELSE value

\* the key handling shared by _parse_device_added and _parse_device_updated
DeviceKey(st, field) ==
    LET kv == ParseKeyValue(field)
        key == kv[1]
        value == kv[2]
    IN  IF key = <<"name">>
        THEN [st EXCEPT !.result = DictSet(@, "name", ParseQuotedString(field))]
        ELSE IF key = <<"type">>
        THEN [st EXCEPT !.result = DictSet(@, "device_type", value)]
        ELSE IF key = <<"status">>
        THEN [st EXCEPT !.result = DictSet(@, "status", value)]
        ELSE IF key = <<"location">>
        THEN [st EXCEPT !.result = DictSet(@, "location", value)]
        ELSE IF key = <<"sn">>
        THEN [st EXCEPT !.result = DictSet(@, "serial_number", SerialOf(value))]
        ELSE IF key = <<"power">>
        THEN [st EXCEPT !.result = DictSet(@, "power", value)]
        ELSE st

\* one iteration of the loop of _parse_device_updated
UpdatedStep(st, field) ==
    LET kv == ParseKeyValue(field)
    IN  IF kv[1] = <<"effective">>
        THEN LET ts == ParseTimestamp(kv[2])
             IN  IF ts = ValueError
                 THEN [st EXCEPT !.err = "ValueError"]
                 ELSE [st EXCEPT !.result = DictSet(@, "effective_time", ts)]
        ELSE DeviceKey(st, field)

\* mutant of AddedStep: effective= is handled as in _parse_device_updated
AddedStepWithEffective(st, field) == UpdatedStep(st, field)

\* one iteration of the loop of _parse_device_added
AddedStep(st, field) == DeviceKey(st, field)

RECURSIVE AddedScan(_, _)
AddedScan(st, fields) ==
    IF fields = <<>> \/ st.err # "none"
    THEN st
    ELSE AddedScan(AddedStep(st, Head(fields)), Tail(fields))

RECURSIVE UpdatedScan(_, _)
UpdatedScan(st, fields) ==
    IF fields = <<>> \/ st.err # "none"
    THEN st
    ELSE UpdatedScan(UpdatedStep(st, Head(fields)), Tail(fields))

\* _parse_device_added(fields): scans fields[3:]
ParseDeviceAdded(fields) ==
    AddedScan([err |-> "none", result |-> EmptyDict], From(fields, 4))

\* _parse_device_updated(fields): old name from fields[3], then fields[4:]
ParseDeviceUpdated(fields) ==
    IF Len(fields) < 4
    THEN [err |-> "IndexError", result |-> EmptyDict]
    ELSE UpdatedScan([err |-> "none",
                      result |-> DictSet(EmptyDict, "name",
                                         ParseQuotedString(fields[4]))],
                     From(fields, 5))

----------------------------------------------------------------------------
(* parse_log: the per-line record and the dispatch on fields[1]            *)

\* the all-None part of the `row` literal of parse_log
NullPayload ==
    [id |-> None, name |-> None, device_type |-> None, status |-> None,
     location |-> None, serial_number |-> None, power |-> None,
     event_subtype |-> None, effective_time |-> None, start_time |-> None,
     start_earliest |-> None, start_latest |-> None, stop_time |-> None,
     stop_earliest |-> None, stop_latest |-> None, note |-> None,
     tracking_state |-> None]

\* the `row` literal: log_time and event_type set, every other key None
NewRow(log_time, event_type) ==
    Update(NullPayload, [log_time |-> log_time, event_type |-> event_type])

Ok(row) == [err |-> "none", row |-> row]
Raise(e, row) == [err |-> e, row |-> row]

\* row.update(d) for the outcome d of a helper that may raise
UpdateWith(row, d) ==
    IF d.err = "none" THEN Ok(Update(row, d.result)) ELSE Raise(d.err, row)

\* The branches of the if/elif chain of parse_log.  fields is 1-based here,
\* so Python's fields[k] is fields[k + 1]; reading a missing field raises
\* IndexError.

OnDeviceAdded(row, fields) ==
    IF Len(fields) < 3 THEN Raise("IndexError", row)
    ELSE UpdateWith([row EXCEPT !.id = fields[3]], ParseDeviceAdded(fields))

OnDeviceUpdated(row, fields) ==
    IF Len(fields) < 3 THEN Raise("IndexError", row)
    ELSE UpdateWith([row EXCEPT !.id = fields[3]], ParseDeviceUpdated(fields))

OnDeviceDeleted(row, fields) ==
    IF Len(fields) < 4 THEN Raise("IndexError", row)
    ELSE Ok([row EXCEPT !.id = fields[3], !.name = ParseQuotedString(fields[4])])

\* DEVICE_NOTE and ACTIVITY_NOTE have the same body
OnNote(row, fields) ==
    IF Len(fields) < 4 THEN Raise("IndexError", row)
    ELSE Ok([row EXCEPT !.id = fields[3],
                        !.name = fields[4],
                        !.note = IF Len(fields) > 4 THEN fields[5] ELSE None])

\* mutant of OnGlobalNote: fields[2] is also taken as the id
OnGlobalNoteWithId(row, fields) ==
    Ok([row EXCEPT !.note = IF Len(fields) > 2 THEN fields[3] ELSE None,
                   !.id = IF Len(fields) > 2 THEN fields[3] ELSE None])

OnGlobalNote(row, fields) ==
    Ok([row EXCEPT !.note = IF Len(fields) > 2 THEN fields[3] ELSE None])

OnEventStarted(row, fields) ==
    IF Len(fields) < 4 THEN Raise("IndexError", row)
    ELSE UpdateWith([row EXCEPT !.id = fields[3], !.event_subtype = fields[4]],
                    ParseSingleTimeWindow(From(fields, 5)))

\* EVENT_STOPPED and EVENT_RETROACTIVE have the same body
OnEventDual(row, fields) ==
    IF Len(fields) < 4 THEN Raise("IndexError", row)
    ELSE UpdateWith([row EXCEPT !.id = fields[3], !.event_subtype = fields[4]],
                    ParseDualTimeWindows(From(fields, 5)))

OnEventCancelled(row, fields) ==
    IF Len(fields) < 4 THEN Raise("IndexError", row)
    ELSE Ok([row EXCEPT !.id = fields[3], !.event_subtype = fields[4]])

OnGlobalTracking(row, fields) ==
    IF Len(fields) < 3 THEN Raise("IndexError", row)
    ELSE Ok([row EXCEPT !.tracking_state = fields[3]])

\* str.upper on the tags of the model
Upper(s) ==
    IF s = <<"device_added">> THEN <<"DEVICE_ADDED">> ELSE s

\* mutant of TagIs: the tag is compared ignoring case
TagIsIgnoreCase(event_type, tag) == Upper(event_type) = <<tag>>

\* event_type == "<tag>": exact match
TagIs(event_type, tag) == event_type = <<tag>>

\* the if/elif chain of parse_log on event_type, for a row already built
Dispatch(row, fields) ==
    LET event_type == fields[2]
    IN  IF TagIs(event_type, "DEVICE_ADDED") THEN OnDeviceAdded(row, fields)
        ELSE IF TagIs(event_type, "DEVICE_UPDATED") THEN OnDeviceUpdated(row, fields)
        ELSE IF TagIs(event_type, "DEVICE_DELETED") THEN OnDeviceDeleted(row, fields)
        ELSE IF TagIs(event_type, "DEVICE_NOTE") THEN OnNote(row, fields)
        ELSE IF TagIs(event_type, "ACTIVITY_NOTE") THEN OnNote(row, fields)
        ELSE IF TagIs(event_type, "GLOBAL_NOTE") THEN OnGlobalNote(row, fields)
        ELSE IF TagIs(event_type, "EVENT_STARTED") THEN OnEventStarted(row, fields)
        ELSE IF TagIs(event_type, "EVENT_STOPPED") THEN OnEventDual(row, fields)
        ELSE IF TagIs(event_type, "EVENT_CANCELLED") THEN OnEventCancelled(row, fields)
        ELSE IF TagIs(event_type, "EVENT_RETROACTIVE") THEN OnEventDual(row, fields)
        ELSE IF TagIs(event_type, "GLOBAL_TRACKING") THEN OnGlobalTracking(row, fields)
        ELSE Ok(row)

\* the body of the loop of parse_log for a line with at least 2 fields:
\* [err, row]; log_time is decoded first and its ValueError is not caught
ParseFields(fields) ==
    LET log_time == ParseTimestamp(fields[1])
    IN  IF log_time = ValueError
        THEN Raise("ValueError", NullPayload)
        ELSE Dispatch(NewRow(log_time, fields[2]), fields)

\* fields of a line as the loop sees them
FieldsOf(line) == SplitTab(Rstrip(line))

\* mutant of Skipped: a line needs 3 fields
SkippedUnderThree(line) == Rstrip(line) = <<>> \/ Len(FieldsOf(line)) < 3

\* `if not line: continue` and `if len(fields) < 2: continue`
Skipped(line) == Rstrip(line) = <<>> \/ Len(FieldsOf(line)) < 2

----------------------------------------------------------------------------
(* The loop of parse_log, one action per way an iteration can end          *)

Reading == pc = "reading" /\ idx <= Len(lines)

\* the line is empty after rstrip, or has fewer than 2 fields: continue
SkipLine ==
    /\ Reading
    /\ Skipped(lines[idx])
    /\ idx' = idx + 1
    /\ UNCHANGED <<lines, rows, pc, df, error, scan, todo>>

\* the line is accepted and nothing raises: rows.append(row)
AppendRow ==
    /\ Reading
    /\ ~Skipped(lines[idx])
    /\ LET r == ParseFields(FieldsOf(lines[idx]))
       IN  /\ r.err = "none"
           /\ rows' = Append(rows, r.row)
    /\ idx' = idx + 1
    /\ UNCHANGED <<lines, pc, df, error, scan, todo>>

\* mutant of Abort: the exception is caught around the loop and the records
\* built so far are returned
AbortReturnsPartial ==
    /\ Reading
    /\ ~Skipped(lines[idx])
    /\ LET r == ParseFields(FieldsOf(lines[idx]))
       IN  /\ r.err # "none"
           /\ error' = r.err
    /\ pc' = "failed"
    /\ df' = rows
    /\ UNCHANGED <<lines, idx, rows, scan, todo>>

\* the line is accepted and an exception escapes parse_log: nothing returned
Abort ==
    /\ Reading
    /\ ~Skipped(lines[idx])
    /\ LET r == ParseFields(FieldsOf(lines[idx]))
       IN  /\ r.err # "none"
           /\ error' = r.err
    /\ pc' = "failed"
    /\ UNCHANGED <<lines, idx, rows, df, scan, todo>>

\* the file is exhausted: return pd.DataFrame(rows)
Return ==
    /\ pc = "reading"
    /\ idx > Len(lines)
    /\ df' = rows
    /\ pc' = "done"
    /\ UNCHANGED <<lines, idx, rows, error, scan, todo>>

Next == SkipLine \/ AppendRow \/ Abort \/ Return

\* the state on entry to parse_log, for a file whose lines are ls
InitWith(ls) ==
    /\ lines = ls
    /\ idx = 1
    /\ rows = <<>>
    /\ pc = "reading"
    /\ df = NotReturned
    /\ error = "none"
    /\ scan = DualInit
    /\ todo = <<>>

----------------------------------------------------------------------------
(* Input files.  Every file is a sequence of lines as the text-mode file   *)
(* iterator yields them: the line's text followed by "\n".                 *)

MaxTail == 4     \* fields after the subtype of an EVENT_* line
MaxFields == 3   \* fields after the event-type tag of a line of any type
MaxKV == 3       \* fields after the id (and old name) of a DEVICE_* line
MaxLines == 3    \* lines of a file

SeqsUpTo(S, n) == UNION {[1..k -> S] : k \in 0..n}

\* "\t".join(fields)
RECURSIVE JoinTab(_)
JoinTab(fields) ==
    IF Len(fields) = 0 THEN <<>>
    ELSE IF Len(fields) = 1 THEN fields[1]
    ELSE fields[1] \o <<TAB>> \o JoinTab(Tail(fields))

LineOf(fields) == JoinTab(fields) \o <<LF>>

BlankLine == <<LF>>
GoodLogTime == <<"12:00", "-05:00">>
BadLogTime == <<"yesterday">>

Earliest(text) == <<"earliest", EQ>> \o text
Latest(text) == <<"latest", EQ>> \o text

\* tail fields of EVENT_* lines: bare timestamps (offset and Z forms), a bare
\* word, earliest=/latest= pairs, and an earliest= whose text does not decode
TailPool ==
    {<<"10:00", "-05:00">>, <<"10:05", "Z">>, <<"run">>,
     Earliest(<<"10:00", "-05:00">>), Earliest(<<"11:55", "Z">>),
     Latest(<<"10:05", "-05:00">>), Latest(<<"12:00", "Z">>),
     Earliest(<<"soon">>)}

WindowTags == {<<"EVENT_STARTED">>, <<"EVENT_STOPPED">>, <<"EVENT_RETROACTIVE">>}

WindowLines ==
    {LineOf(<<GoodLogTime, tag, <<"uuid-1">>, <<"run">>>> \o tail) :
        tag \in WindowTags, tail \in SeqsUpTo(TailPool, MaxTail)}

\* one EVENT_* line, or one blank line
InitWindow == \E l \in WindowLines \cup {BlankLine} : InitWith(<<l>>)

SpecWindow == InitWindow /\ [][Next]_vars

----------------------------------------------------------------------------
(* Vocabulary of the properties *)

RECURSIVE Accepted(_)
Accepted(ls) ==
    IF ls = <<>> THEN <<>>
    ELSE IF Skipped(Head(ls)) THEN Accepted(Tail(ls))
    ELSE <<FieldsOf(Head(ls))>> \o Accepted(Tail(ls))

\* the fields of the line rows[i] was built from
Source(i) == Accepted(SubSeq(lines, 1, idx - 1))[i]

\* the tail fields (Python's fields[4:]) of the line rows[i] was built from
TailOf(i) == From(Source(i), 5)

DualTags == {<<"EVENT_STOPPED">>, <<"EVENT_RETROACTIVE">>}

Decodes(text) == ParseTimestamp(text) # ValueError
IsEarliest(f) == StartsWith(f, <<"earliest", EQ>>)
IsLatest(f) == StartsWith(f, <<"latest", EQ>>)
IsBare(f) == IndexOf(f, EQ) = 0
IsBareTs(f) == IsBare(f) /\ Decodes(f)
BoundOf(f) == ParseTimestamp(AfterEq(f))

\* the line being read is an EVENT_STARTED/STOPPED/RETROACTIVE line with a
\* decodable fields[0], an id and a subtype
AtWindowLine ==
    /\ idx <= Len(lines)
    /\ ~Skipped(lines[idx])
    /\ LET f == FieldsOf(lines[idx])
       IN  Len(f) >= 4 /\ f[2] \in WindowTags /\ Decodes(f[1])

\* C1 (as stated): in every record of an EVENT_* line resolved by the single-
\* or the dual-window algorithm a slot never holds both a backdated instant
\* and a bound: start_time is never set together with start_earliest or
\* start_latest, nor stop_time together with stop_earliest or stop_latest.
C1_NeverBoth ==
    \A i \in 1..Len(rows) :
        rows[i].event_type \in WindowTags =>
            /\ ~(rows[i].start_time # None
                 /\ (rows[i].start_earliest # None \/ rows[i].start_latest # None))
            /\ ~(rows[i].stop_time # None
                 /\ (rows[i].stop_earliest # None \/ rows[i].stop_latest # None))

\* C2 (as stated): on an EVENT_* line a tail field whose timestamp text does
\* not decode never aborts the parse: no exception escapes while such a line
\* (decodable fields[0], id and subtype present) is being read.
C2_TailNeverAborts == AtWindowLine => pc # "failed"

\* C3: dual-window algorithm, tail exactly earliest=a, latest=b, optionally
\* followed by earliest=c, latest=d (all decodable): start_earliest = a,
\* start_latest = b, stop_earliest = c, stop_latest = d (both None without
\* the second pair), start_time and stop_time None.
PairTail(t) ==
    /\ Len(t) \in {2, 4}
    /\ \A k \in 1..Len(t) :
          /\ IF k \in {1, 3} THEN IsEarliest(t[k]) ELSE IsLatest(t[k])
          /\ Decodes(AfterEq(t[k]))

C3_TwoPairs ==
    \A i \in 1..Len(rows) :
        (rows[i].event_type \in DualTags /\ PairTail(TailOf(i))) =>
            LET t == TailOf(i)
                r == rows[i]
            IN  /\ r.start_earliest = BoundOf(t[1])
                /\ r.start_latest = BoundOf(t[2])
                /\ r.stop_earliest = (IF Len(t) = 4 THEN BoundOf(t[3]) ELSE None)
                /\ r.stop_latest = (IF Len(t) = 4 THEN BoundOf(t[4]) ELSE None)
                /\ r.start_time = None
                /\ r.stop_time = None

\* C3 witness: a returned EVENT_STOPPED/RETROACTIVE record of a four-field
\* tail with two different pairs, all four bounds set
C3_Witness ==
    /\ pc = "done"
    /\ \E i \in 1..Len(df) :
          /\ df[i].event_type \in DualTags
          /\ PairTail(TailOf(i))
          /\ Len(TailOf(i)) = 4
          /\ TailOf(i)[1] # TailOf(i)[3]
          /\ TailOf(i)[2] # TailOf(i)[4]
          /\ df[i].stop_latest # None

\* C4: dual-window algorithm, any tail: start_time is the first bare field
\* that decodes (None if there is none), stop_time the second (None if fewer
\* than two), whatever is interleaved; bare timestamps after the second change
\* no field of the result.
RECURSIVE DropExtraBare(_, _)
DropExtraBare(t, seen) ==
    IF t = <<>> THEN <<>>
    ELSE IF IsBareTs(Head(t))
    THEN (IF seen >= 2 THEN <<>> ELSE <<Head(t)>>) \o DropExtraBare(Tail(t), seen + 1)
    ELSE <<Head(t)>> \o DropExtraBare(Tail(t), seen)

WindowKeys ==
    {"start_time", "start_earliest", "start_latest",
     "stop_time", "stop_earliest", "stop_latest"}

C5_SingleWindow ==
    \A i \in 1..Len(rows) :
        rows[i].event_type = <<"EVENT_STARTED">> =>
            LET t == TailOf(i)
                es == SelectSeq(t, IsEarliest)
                ls == SelectSeq(t, IsLatest)
                bs == SelectSeq(t, IsBareTs)
                r == rows[i]
            IN  /\ r.start_earliest = (IF es = <<>> THEN None ELSE BoundOf(es[Len(es)]))
                /\ r.start_latest = (IF ls = <<>> THEN None ELSE BoundOf(ls[Len(ls)]))
                /\ r.start_time = (IF bs = <<>> THEN None ELSE ParseTimestamp(bs[Len(bs)]))
                /\ r.stop_time = None
                /\ r.stop_earliest = None
                /\ r.stop_latest = None

\* C5 witness: a returned EVENT_STARTED record whose tail has two different
\* earliest= fields, two different latest= fields
C5_Witness ==
    /\ pc = "done"
    /\ \E i \in 1..Len(df) :
          /\ df[i].event_type = <<"EVENT_STARTED">>
          /\ LET es == SelectSeq(TailOf(i), IsEarliest)
                 ls == SelectSeq(TailOf(i), IsLatest)
             IN  /\ Len(es) = 2 /\ es[1] # es[2]
                 /\ Len(ls) = 2 /\ ls[1] # ls[2]
          /\ df[i].start_latest # None

----------------------------------------------------------------------------
(* Lines of every event type *)

KnownTags ==
    {<<"DEVICE_ADDED">>, <<"DEVICE_UPDATED">>, <<"DEVICE_DELETED">>,
     <<"DEVICE_NOTE">>, <<"ACTIVITY_NOTE">>, <<"GLOBAL_NOTE">>,
     <<"EVENT_STARTED">>, <<"EVENT_STOPPED">>, <<"EVENT_CANCELLED">>,
     <<"EVENT_RETROACTIVE">>, <<"GLOBAL_TRACKING">>}

\* tags outside the enumeration: another case, another word
OtherTags == {<<"device_added">>, <<"EVENT_PAUSED">>}

GlobalTags == {<<"GLOBAL_NOTE">>, <<"GLOBAL_TRACKING">>}

\* fields after the tag: a bare word, a quoted word, key=value pairs of the
\* device lines, earliest=/latest= pairs and a bare timestamp
FieldPool ==
    {<<"uuid-1">>, <<QUOTE, "Old", QUOTE>>,
     <<"name", EQ, QUOTE, "New", QUOTE>>, <<"sn", EQ, "SN1">>,
     <<"effective", EQ, "10:00", "Z">>,
     Earliest(<<"10:00", "-05:00">>), Latest(<<"10:05", "-05:00">>),
     <<"11:55", "-05:00">>}

AnyLines ==
    {LineOf(<<t, tag>> \o rest) :
        t \in {GoodLogTime, BadLogTime},
        tag \in KnownTags \cup OtherTags,
        rest \in SeqsUpTo(FieldPool, MaxFields)}

\* one line of any type, or a line with the timestamp alone
InitLine == \E l \in AnyLines \cup {LineOf(<<GoodLogTime>>)} : InitWith(<<l>>)

SpecLine == InitLine /\ [][Next]_vars

PayloadKeys == DOMAIN NullPayload

\* C6: in every record, id is None for GLOBAL_NOTE and GLOBAL_TRACKING, and
\* is fields[2] of the line, not None, for the nine other event types.
C6_IdByType ==
    \A i \in 1..Len(rows) :
        /\ rows[i].event_type \in GlobalTags => rows[i].id = None
        /\ rows[i].event_type \in KnownTags \ GlobalTags =>
              rows[i].id # None /\ rows[i].id = Source(i)[3]

\* C6 witness: a returned GLOBAL_NOTE record of a line that has a fields[2]
C6_Witness ==
    /\ pc = "done"
    /\ \E i \in 1..Len(df) :
          /\ df[i].event_type = <<"GLOBAL_NOTE">>
          /\ Len(Source(i)) >= 3
          /\ df[i].note = Source(i)[3]
          /\ df[i].id = None

\* C7: every payload field outside the set of the record's event type is
\* None, whatever the tail fields of the line are.
AllowedKeys(event_type) ==
    LET device == {"id", "name", "device_type", "status", "location",
                   "serial_number", "power"}
        start == {"id", "event_subtype", "start_time", "start_earliest",
                  "start_latest"}
    IN  IF event_type = <<"DEVICE_ADDED">> THEN device
        ELSE IF event_type = <<"DEVICE_UPDATED">> THEN device \cup {"effective_time"}
        ELSE IF event_type = <<"DEVICE_DELETED">> THEN {"id", "name"}
        ELSE IF event_type \in {<<"DEVICE_NOTE">>, <<"ACTIVITY_NOTE">>}
        THEN {"id", "name", "note"}
        ELSE IF event_type = <<"GLOBAL_NOTE">> THEN {"note"}
        ELSE IF event_type = <<"GLOBAL_TRACKING">> THEN {"tracking_state"}
        ELSE IF event_type = <<"EVENT_CANCELLED">> THEN {"id", "event_subtype"}
        ELSE IF event_type = <<"EVENT_STARTED">> THEN start
        ELSE start \cup {"stop_time", "stop_earliest", "stop_latest"}

C7_OnlyOwnFields ==
    \A i \in 1..Len(rows) :
        rows[i].event_type \in KnownTags =>
            \A k \in PayloadKeys \ AllowedKeys(rows[i].event_type) :
                rows[i][k] = None

\* C7 witness: a returned DEVICE_ADDED record of a line that carries an
\* effective= field and an earliest= field, neither of which it may set
C7_Witness ==
    /\ pc = "done"
    /\ \E i \in 1..Len(df) :
          /\ df[i].event_type = <<"DEVICE_ADDED">>
          /\ \E a, b \in 4..Len(Source(i)) :
                /\ StartsWith(Source(i)[a], <<"effective", EQ>>)
                /\ IsEarliest(Source(i)[b])
          /\ df[i].effective_time = None

\* C8: a line with at least 2 fields, a decodable fields[0] and a fields[1]
\* outside the 11 tags raises nothing and gives a record with log_time and
\* event_type set and the 17 other fields None, whatever its other fields.
UnknownLine(line) ==
    /\ ~Skipped(line)
    /\ Decodes(FieldsOf(line)[1])
    /\ FieldsOf(line)[2] \notin KnownTags

C8_UnknownTag ==
    \A k \in 1..Len(lines) :
        UnknownLine(lines[k]) =>
            /\ ~(pc = "failed" /\ idx = k)
            /\ k < idx =>
                  LET i == Len(Accepted(SubSeq(lines, 1, k)))
                  IN  /\ i <= Len(rows)
                      /\ rows[i].log_time = ParseTimestamp(FieldsOf(lines[k])[1])
                      /\ rows[i].event_type = FieldsOf(lines[k])[2]
                      /\ \A key \in PayloadKeys : rows[i][key] = None

\* C8 witness: a returned record of a line tagged device_added (wrong case)
\* that has an id and a name= field
C8_Witness ==
    /\ pc = "done"
    /\ Len(df) = 1
    /\ UnknownLine(lines[1])
    /\ df[1].event_type = <<"device_added">>
    /\ Len(FieldsOf(lines[1])) >= 4
    /\ FieldsOf(lines[1])[4] = <<"name", EQ, QUOTE, "New", QUOTE>>

----------------------------------------------------------------------------
(* DEVICE_ADDED and DEVICE_UPDATED lines *)

\* key=value fields: quoted and unquoted names, a bare word that is a key,
\* serial numbers, a type, effective= with and without a decodable text
KVPool ==
    {<<"name", EQ, QUOTE, "New", QUOTE>>, <<"name", EQ, QUOTE, "Newer", QUOTE>>,
     <<"name", EQ, "New">>, <<"name">>,
     <<"type", EQ, "watch">>,
     <<"sn", EQ, "none">>, <<"sn", EQ, "SN1">>, <<"sn", EQ, QUOTE, "none", QUOTE>>,
     <<"effective", EQ, "10:00", "Z">>, <<"effective", EQ, "soon">>}

DeviceLines ==
    {LineOf(<<GoodLogTime, <<"DEVICE_ADDED">>, <<"uuid-1">>>> \o kv) :
        kv \in SeqsUpTo(KVPool, MaxKV)}
    \cup
    {LineOf(<<GoodLogTime, <<"DEVICE_UPDATED">>, <<"uuid-1">>, old>> \o kv) :
        old \in {<<QUOTE, "Old", QUOTE>>, <<"Old">>},
        kv \in SeqsUpTo(KVPool, MaxKV)}

\* one DEVICE_ADDED or DEVICE_UPDATED line, or one blank line
InitDevice == \E l \in DeviceLines \cup {BlankLine} : InitWith(<<l>>)

SpecDevice == InitDevice /\ [][Next]_vars

IsNamePair(f) == StartsWith(f, <<"name", EQ>>)

\* C10 (as stated): every DEVICE_UPDATED record: name is the quoted-string
\* extraction of fields[3] when fields[4:] has no name= pair, and the new name
\* carried by the last name= pair of fields[4:] (the value of that pair) when
\* it has one, wherever the pair stands.
C10_UpdatedName ==
    \A i \in 1..Len(rows) :
        rows[i].event_type = <<"DEVICE_UPDATED">> =>
            LET pairs == SelectSeq(TailOf(i), IsNamePair)
            IN  rows[i].name =
                    (IF pairs = <<>>
                     THEN ParseQuotedString(Source(i)[4])
                     ELSE ParseKeyValue(pairs[Len(pairs)])[2])

\* the key=value fields of the line rows[i] was built from: fields[3:] of a
\* DEVICE_ADDED line, fields[4:] of a DEVICE_UPDATED line
KVOf(i) ==
    IF rows[i].event_type = <<"DEVICE_ADDED">>
    THEN From(Source(i), 4)
    ELSE From(Source(i), 5)

DeviceTags == {<<"DEVICE_ADDED">>, <<"DEVICE_UPDATED">>}

IsSnPair(f) == StartsWith(f, <<"sn", EQ>>)

Unquoted(v) ==
    IF Len(v) >= 1 /\ v[1] = QUOTE /\ v[Len(v)] = QUOTE
    THEN SubSeq(v, 2, Len(v) - 1)
    ELSE v

\* a field whose key is sn: sn=<value>, or the bare field sn (its own key)
HasKeySn(f) == IsSnPair(f) \/ f = <<"sn">>

----------------------------------------------------------------------------
(* Whole files *)

\* lines of a file: blank, timestamp alone, one per outcome of an iteration,
\* with different tags so that the order of the records shows
LinePool ==
    {BlankLine,
     LineOf(<<GoodLogTime>>),
     LineOf(<<GoodLogTime, <<"GLOBAL_NOTE">>>>),
     LineOf(<<<<"10:00", "Z">>, <<"GLOBAL_TRACKING">>, <<"on">>>>),
     LineOf(<<<<"10:05", "Z">>, <<"EVENT_CANCELLED">>, <<"uuid-1">>, <<"swim">>>>),
     LineOf(<<GoodLogTime, <<"DEVICE_UPDATED">>, <<"uuid-1">>,
              <<QUOTE, "Old", QUOTE>>, <<"effective", EQ, "10:00", "Z">>>>),
     LineOf(<<GoodLogTime, <<"DEVICE_UPDATED">>, <<"uuid-1">>,
              <<QUOTE, "Old", QUOTE>>, <<"effective", EQ, "soon">>>>),
     LineOf(<<BadLogTime, <<"GLOBAL_TRACKING">>, <<"off">>>>)}

\* the last line of a file may lack its "\n" (a lone "\n" would then be no
\* line at all, so a blank last line keeps it)
Unterminated(f) ==
    [k \in 1..Len(f) |->
        IF k = Len(f) /\ f[k] # BlankLine
        THEN SubSeq(f[k], 1, Len(f[k]) - 1)
        ELSE f[k]]

Files ==
    SeqsUpTo(LinePool, MaxLines)
    \cup {Unterminated(f) : f \in SeqsUpTo(LinePool, MaxLines)}

Init == \E f \in Files : InitWith(f)

Spec == Init /\ [][Next]_vars

\* what the text says of a line, without the parser's own helpers: the
\* characters other than line ends, and the number of tabs among them
Content(line) == SelectSeq(line, LAMBDA c : c \notin {LF, CR})
TabCount(line) == Cardinality({k \in 1..Len(line) : line[k] = TAB})
Counts(line) == Content(line) # <<>> /\ TabCount(line) >= 1

RECURSIVE Counted(_)
Counted(ls) ==
    IF ls = <<>> THEN <<>>
    ELSE IF Counts(Head(ls)) THEN <<Head(ls)>> \o Counted(Tail(ls))
    ELSE Counted(Tail(ls))

\* C9: when parse_log returns, its output has exactly one record per line
\* that is non-empty after stripping line ends and has at least 2
\* tab-separated fields, in the order of those lines; other lines give no
\* record and an empty file gives none.
C9_OneRecordPerLine ==
    pc = "done" =>
        LET kept == Counted(lines)
        IN  /\ Len(df) = Len(kept)
            /\ \A i \in 1..Len(df) :
                  /\ df[i].event_type = SplitTab(Content(kept[i]))[2]
                  /\ df[i].log_time = ParseTimestamp(SplitTab(Content(kept[i]))[1])

\* C9 witness: a returned file of three lines, a line with the timestamp
\* alone between two accepted lines of different types, the first with just
\* 2 fields
C9_Witness ==
    /\ pc = "done"
    /\ Len(lines) = 3
    /\ Len(df) = 2
    /\ ~Counts(lines[2])
    /\ Content(lines[2]) # <<>>
    /\ Len(FieldsOf(lines[1])) = 2
    /\ df[1].event_type # df[2].event_type

\* C12: if fields[0] of an accepted line, or the value of an effective= field
\* among fields[4:] of a DEVICE_UPDATED line, does not decode, parse_log never
\* returns: the loop never gets past that line (while it reads, an iteration
\* is always possible, and the one at that line raises), and no record is
\* returned, those built from earlier lines included.
BadLogTimeLine(line) ==
    Counts(line) /\ ~Decodes(SplitTab(Content(line))[1])

IsEffectivePair(f) == StartsWith(f, <<"effective", EQ>>)

BadEffectiveLine(line) ==
    /\ Counts(line)
    /\ LET f == SplitTab(Content(line))
       IN  /\ f[2] = <<"DEVICE_UPDATED">>
           /\ \E j \in 5..Len(f) :
                 IsEffectivePair(f[j]) /\ ~Decodes(Unquoted(AfterEq(f[j])))

Undecodable(k) == BadLogTimeLine(lines[k]) \/ BadEffectiveLine(lines[k])

C12_FailsAsAWhole ==
    \A k \in 1..Len(lines) :
        Undecodable(k) =>
            /\ pc # "done"
            /\ df = NotReturned
            /\ idx <= k
            /\ pc \in {"reading", "failed"}

\* C12 witness: parse_log has failed on an undecodable effective= value at
\* the third line, after a skipped line and a line whose record was built
C12_Witness ==
    /\ pc = "failed"
    /\ error = "ValueError"
    /\ idx = 3
    /\ BadEffectiveLine(lines[3])
    /\ Len(rows) = 1
    /\ df = NotReturned

----------------------------------------------------------------------------
(* One call of _parse_dual_time_windows, one loop iteration per step.  pc  *)
(* is "scanning" in the loop, "scanned" once the function has returned and *)
(* "raised" once a ValueError has left it.                                 *)

\* entry to _parse_dual_time_windows(fields)
InitScan ==
    /\ todo \in SeqsUpTo(TailPool, MaxTail)
    /\ scan = DualInit
    /\ pc = "scanning"
    /\ lines = <<>>
    /\ idx = 1
    /\ rows = <<>>
    /\ df = NotReturned
    /\ error = "none"

\* an iteration of `for field in fields` that completes
ScanField ==
    /\ pc = "scanning"
    /\ todo # <<>>
    /\ DualStep(scan, Head(todo)).err = "none"
    /\ scan' = DualStep(scan, Head(todo))
    /\ todo' = Tail(todo)
    /\ UNCHANGED <<lines, idx, rows, pc, df, error>>

\* an iteration in which _parse_timestamp raises on an earliest=/latest= text
ScanRaise ==
    /\ pc = "scanning"
    /\ todo # <<>>
    /\ DualStep(scan, Head(todo)).err # "none"
    /\ scan' = DualStep(scan, Head(todo))
    /\ error' = DualStep(scan, Head(todo)).err
    /\ pc' = "raised"
    /\ UNCHANGED <<lines, idx, rows, df, todo>>

\* the loop is over: the bare timestamps are assigned and result returned
ScanReturn ==
    /\ pc = "scanning"
    /\ todo = <<>>
    /\ scan' = [scan EXCEPT !.result = AssignBare(scan)]
    /\ pc' = "scanned"
    /\ UNCHANGED <<lines, idx, rows, df, error, todo>>

NextScan == ScanField \/ ScanRaise \/ ScanReturn

SpecScan == InitScan /\ [][NextScan]_vars

\* C13: after the dual-window scan and after every step of it, stop_latest is
\* set only if start_latest is, stop_earliest only if start_earliest or
\* start_latest is, and seen_start_window is true exactly when start_latest
\* is set; once true, seen_start_window stays true for the rest of the call.
StopAfterStart ==
    /\ scan.result.stop_latest # None => scan.result.start_latest # None
    /\ scan.result.stop_earliest # None =>
          (scan.result.start_earliest # None \/ scan.result.start_latest # None)
    /\ scan.seen_start_window <=> scan.result.start_latest # None

C13_StopAfterStart ==
    /\ []StopAfterStart
    /\ [][scan.seen_start_window => scan'.seen_start_window]_vars

\* C13 witness: in the middle of a scan that began with latest=, both stop
\* bounds are set while start_earliest is not, and fields are still to come
C13_Witness ==
    /\ pc = "scanning"
    /\ todo # <<>>
    /\ scan.seen_start_window
    /\ scan.result.start_earliest = None
    /\ scan.result.stop_earliest # None
    /\ scan.result.stop_latest # None

====
